---------------------------- MODULE Spec2Model ----------------------------
(***************************************************************************)
(* Model of the scoped TMPDIR redirector of Ultra.Sampler:                 *)
(*   src/Ultra.Sampler/ultra_sampler_hook.cpp                              *)
(*   src/Ultra.Sampler/ultra_sampler_indirect.cpp                          *)
(*                                                                         *)
(* set_temporary_tmpdir(sub_dir_name, func) reads TMPDIR, formats a path   *)
(* below it, creates the directory, points TMPDIR at it, calls func and    *)
(* writes the first value back.  ultra_sampler_boot is the module          *)
(* initializer that calls it with ".ultra" and ultra_sampler_start.        *)
(*                                                                         *)
(* Strings are sequences of one-character strings.  The environment is a   *)
(* small heap of string cells: getenv returns a pointer to the cell the    *)
(* environment uses for TMPDIR, and setenv may allocate a new cell, write  *)
(* into the current one, or release it (POSIX: the pointer returned by     *)
(* getenv may be invalidated, or the string overwritten, by setenv).       *)
(***************************************************************************)
EXTENDS Naturals, Integers, Sequences, FiniteSets

VARIABLES
    variant,            \* which source file is built: "hook" or "indirect"
    pc,                 \* position of the calling thread
    caller,             \* "none", "boot" (module initializer) or "direct"
    sub_dir_name,       \* parameter of set_temporary_tmpdir
    mem,                \* string cells: [val, st], st in unused/live/freed
    envp,               \* cell the environment holds for TMPDIR, 0 = unset
    fs,                 \* filesystem: resolved path -> [kind, mode]
    umask,              \* file mode creation mask of the process
    original_tmpdir,    \* local: pointer returned by getenv, 0 = NULL
    has_trailing_slash, \* local
    new_tmpdir_len,     \* local
    new_tmpdir,         \* local: contents of the malloc'ed buffer
    cbWrites,           \* number of TMPDIR writes made by the callback
    entry,              \* history: TMPDIR as read at entry [set, val]
    calls,              \* history: number of invocations of func
    seen,               \* history: TMPDIR when func was entered [set, val]
    mkdirs,             \* history: mkdir calls [path, rc, errno]
    writes,             \* history: setenv calls of this call [who, val, rc]
    reads,              \* history: number of getenv("TMPDIR") calls
    first,              \* history: what an earlier call of this thread did
    opc,                \* position of a second thread of the process
    ocap,               \* second thread: the TMPDIR value it captured
    cmpMode,            \* "single", or "record"/"replay" (file comparison)
    log,                \* record/replay: the states one file went through
    pos,                \* replay: how much of log the other file has matched
    start               \* record/replay: environment and filesystem at load

aux == <<first, opc, ocap, cmpMode, log, pos, start>>

vars == <<variant, pc, caller, sub_dir_name, mem, envp, fs, umask,
          original_tmpdir, has_trailing_slash, new_tmpdir_len, new_tmpdir,
          cbWrites, entry, calls, seen, mkdirs, writes, reads, aux>>

(***************************************************************************)
(* Bounds of the model.                                                    *)
(***************************************************************************)
MaxTmpdirLen == 2
MaxCallbackWrites == 1
MaxTwiceLen == 1
MaxPairLen == 1
\* One cell for the initial value and one for each setenv that can happen:
\* two calls of this thread, or one call and one of a second thread.
NumCells == 1 + 2 * (2 + MaxCallbackWrites)

(***************************************************************************)
(* Program constants.                                                      *)
(***************************************************************************)
S_IRWXU == 448
ULTRA == <<".", "u", "l", "t", "r", "a">>

(***************************************************************************)
(* Input values.                                                           *)
(***************************************************************************)
Chars == {"/", "a"}
Str(n) == UNION {[1..k -> Chars] : k \in 0..n}
TMP == <<"/", "t", "m", "p">>
TMP_SLASH == <<"/", "t", "m", "p", "/">>
SubDirNames == {ULTRA, <<"a">>}
CallbackValues == {<<"/", "c">>}
Garbage == <<"?">>
Umasks == {18, 63}
ROOT == <<"/">>
Min(a, b) == IF a < b THEN a ELSE b


(***************************************************************************)
(* The environment: getenv("TMPDIR") and setenv("TMPDIR", value, 1).       *)
(***************************************************************************)
Cells == 1..NumCells
FreeCell == CHOOSE c \in Cells :
                /\ mem[c].st = "unused"
                /\ \A d \in Cells : mem[d].st = "unused" => c <= d

\* What a reader of the environment gets for TMPDIR now.
Tmpdir == [set |-> envp # 0,
           val |-> IF envp # 0 THEN mem[envp].val ELSE <<>>]
Unset == [set |-> FALSE, val |-> <<>>]
Value(v) == [set |-> TRUE, val |-> v]

\* The strings a read through pointer p can yield.  A cell that setenv has
\* released is no longer owned by the reader: the read yields what was left
\* there or anything else.
Deref(p) == IF mem[p].st = "live" THEN {mem[p].val}
            ELSE {mem[p].val, Garbage}

\* setenv succeeded: the three ways a C library stores the new value.
SetenvStores(value) ==
    \/ \* a new string is allocated, the old one is left alone
       /\ mem' = [mem EXCEPT ![FreeCell] = [val |-> value, st |-> "live"]]
       /\ envp' = FreeCell
    \/ \* the value is copied over the string the environment holds
       /\ envp # 0
       /\ mem' = [mem EXCEPT ![envp] = [val |-> value, st |-> "live"]]
       /\ envp' = envp
    \/ \* a new string is allocated and the old one is released
       /\ envp # 0
       /\ mem' = [mem EXCEPT ![FreeCell] = [val |-> value, st |-> "live"],
                             ![envp] = [val |-> mem[envp].val, st |-> "freed"]]
       /\ envp' = FreeCell

(***************************************************************************)
(* The filesystem: mkdir(path, 0700).                                      *)
(***************************************************************************)
RECURSIVE BitAnd(_, _)
BitAnd(a, b) == IF a = 0 \/ b = 0 THEN 0
                ELSE (a % 2) * (b % 2) + 2 * BitAnd(a \div 2, b \div 2)

RECURSIVE Collapse(_)
Collapse(p) == IF Len(p) < 2 THEN p
               ELSE IF p[1] = "/" /\ p[2] = "/" THEN Collapse(Tail(p))
               ELSE <<p[1]>> \o Collapse(Tail(p))

\* The entry a path names: repeated separators count as one and trailing
\* separators are dropped ("/tmp/.ultra/" names "/tmp/.ultra").
Resolve(p) == LET q == Collapse(p)
              IN IF Len(q) > 1 /\ q[Len(q)] = "/"
                 THEN SubSeq(q, 1, Len(q) - 1) ELSE q

Exists(p) == Resolve(p) \in DOMAIN fs
Dir(mode) == [kind |-> "dir", mode |-> mode]
File(mode) == [kind |-> "file", mode |-> mode]
MkdirErrors == {"EACCES", "ENOSPC"}

(***************************************************************************)
(* set_temporary_tmpdir: the path computation.                             *)
(***************************************************************************)
\* The index read by the trailing-slash test: original_tmpdir_len - 1.  The
\* subtraction is made in size_t; added to the pointer, the wrapped value
\* addresses the byte before the string, written -1 here.
TrailingIndex(len) == len - 1

\* original_tmpdir[original_tmpdir_len - 1] == '/'.  For the empty string
\* the index is before the start of the string: the byte read there is not
\* part of the value, so either answer can come out.
TrailingSlashOutcomes(original) ==
    IF TrailingIndex(Len(original)) >= 0
    THEN {original[TrailingIndex(Len(original)) + 1] = "/"}
    ELSE BOOLEAN

NewTmpdirLen(original, sub, hts) ==
    Len(original) + Len(sub) + 1 + (IF hts THEN 1 ELSE 0)

\* A variant that inserts the separator whatever the original value ends with.
FormatAlwaysSeparator(original, sub, hts) ==
    original \o <<"/">> \o sub \o <<"/">>

\* has_trailing_slash ? "%s%s/" : "%s/%s/"
Format(original, sub, hts) ==
    IF hts THEN original \o sub \o <<"/">>
    ELSE original \o <<"/">> \o sub \o <<"/">>

\* snprintf(buf, size, fmt, ...): at most size - 1 characters are stored.
Snprintf(size, full) == SubSeq(full, 1, Min(Len(full), size - 1))

(***************************************************************************)
(* Initial states: the process as the module is mapped into it.            *)
(***************************************************************************)
\* The paths at which an entry may already be present: the ones a call made
\* in this environment can pass to mkdir.
PrePaths(o) ==
    IF ~o.set THEN {}
    ELSE {Resolve(Snprintf(NewTmpdirLen(o.val, s, h), Format(o.val, s, h))) :
             s \in SubDirNames, h \in TrailingSlashOutcomes(o.val)} \ {ROOT}

PreEntries == {Dir(448), Dir(493), File(420)}

\* The environment holds o for TMPDIR; the filesystem holds the root and at
\* most one entry where the call will look.
InitEnv(o) ==
    /\ mem = [c \in Cells |->
                IF c = 1 /\ o.set THEN [val |-> o.val, st |-> "live"]
                ELSE [val |-> <<>>, st |-> "unused"]]
    /\ envp = IF o.set THEN 1 ELSE 0
    /\ \/ fs = [q \in {ROOT} |-> Dir(493)]
       \/ \E p \in PrePaths(o), e \in PreEntries :
            fs = [q \in {ROOT, p} |-> IF q = p THEN e ELSE Dir(493)]

\* Nothing has been called yet.
InitCall ==
    /\ variant \in {"hook", "indirect"}
    /\ pc = "idle"
    /\ caller = "none"
    /\ sub_dir_name = <<>>
    /\ original_tmpdir = 0
    /\ has_trailing_slash = FALSE
    /\ new_tmpdir_len = 0
    /\ new_tmpdir = <<>>
    /\ cbWrites = 0
    /\ entry = Unset
    /\ calls = 0
    /\ seen = Unset
    /\ mkdirs = <<>>
    /\ writes = <<>>
    /\ reads = 0

NoCall == [done |-> FALSE]
NoCapture == [ptr |-> 0, entry |-> Unset, path |-> <<>>, restored |-> Unset]

InitAux(m) ==
    /\ first = NoCall
    /\ opc = "idle"
    /\ ocap = NoCapture
    /\ cmpMode = m
    /\ log = <<>>
    /\ pos = 0
    /\ start = IF m = "single" THEN <<>> ELSE <<mem, envp, fs>>

Init ==
    /\ InitCall
    /\ \/ InitEnv(Value(TMP))
       \/ InitEnv(Value(TMP_SLASH))
       \/ \E v \in Str(MaxTmpdirLen) : InitEnv(Value(v))
       \/ InitEnv(Unset)
    /\ umask \in Umasks
    /\ InitAux("single")

(***************************************************************************)
(* The callers.                                                            *)
(***************************************************************************)
\* What the two source files have in common: everything a call reads or
\* writes, with the place of the diagnostic line counted as the place of
\* the call of func that follows it.  Left out: which file it is, and how
\* often the environment was read.
Core == <<IF pc = "diag" THEN "call" ELSE pc, caller, sub_dir_name, mem,
          envp, fs, umask, original_tmpdir, has_trailing_slash,
          new_tmpdir_len, new_tmpdir, cbWrites, entry, calls, seen, mkdirs,
          writes>>

\* What one step of a call does to the bookkeeping above.  While a call is
\* recorded, each change of Core is appended to log.  While the call of the
\* other source file is replayed, a step is allowed only if it leaves Core
\* alone or makes the next change in log.
Observe ==
    CASE cmpMode = "record" ->
           /\ log' = IF Core' = Core THEN log ELSE Append(log, Core')
           /\ UNCHANGED <<first, opc, ocap, cmpMode, pos, start>>
      [] cmpMode = "replay" ->
           /\ \/ /\ Core' = Core
                 /\ pos' = pos
              \/ /\ pos < Len(log)
                 /\ Core' = log[pos + 1]
                 /\ pos' = pos + 1
           /\ UNCHANGED <<first, opc, ocap, cmpMode, log, start>>
      [] OTHER -> UNCHANGED aux

Enter(who, sub) ==
    /\ pc = "idle"
    /\ pc' = "getenv"
    /\ caller' = who
    /\ sub_dir_name' = sub
    /\ UNCHANGED <<variant, mem, envp, fs, umask, original_tmpdir,
                   has_trailing_slash, new_tmpdir_len, new_tmpdir, cbWrites,
                   entry, calls, seen, mkdirs, writes, reads>>
    /\ Observe

\* The module initializer: set_temporary_tmpdir(".ultra", ultra_sampler_start).
ultra_sampler_boot == Enter("boot", ULTRA)

\* set_temporary_tmpdir has external linkage: any other caller, any name.
DirectCall == \E s \in SubDirNames : Enter("direct", s)

(***************************************************************************)
(* set_temporary_tmpdir, one action per library call.                      *)
(***************************************************************************)
\* A variant that runs the callback without redirection when TMPDIR is unset.
AfterGetenvFallsBack(p) == IF p = 0 THEN "call" ELSE "build"

\* if (!original_tmpdir) return;
AfterGetenv(p) == IF p = 0 THEN "returned" ELSE "build"

\* original_tmpdir = getenv("TMPDIR"); if (!original_tmpdir) return;
GetenvEntry ==
    /\ pc = "getenv"
    /\ original_tmpdir' = envp
    /\ entry' = Tmpdir
    /\ reads' = reads + 1
    /\ pc' = AfterGetenv(envp)
    /\ UNCHANGED <<variant, caller, sub_dir_name, mem, envp, fs, umask,
                   has_trailing_slash, new_tmpdir_len, new_tmpdir, cbWrites,
                   calls, seen, mkdirs, writes>>
    /\ Observe

\* strlen, the trailing-slash test, the length, malloc and snprintf.
BuildPath ==
    /\ pc = "build"
    /\ \E original \in Deref(original_tmpdir) :
       \E hts \in TrailingSlashOutcomes(original) :
         /\ has_trailing_slash' = hts
         /\ new_tmpdir_len' = NewTmpdirLen(original, sub_dir_name, hts)
         /\ \/ \* malloc returned NULL
               /\ new_tmpdir' = new_tmpdir
               /\ pc' = "returned"
            \/ /\ new_tmpdir' = Snprintf(new_tmpdir_len',
                                         Format(original, sub_dir_name, hts))
               /\ pc' = "mkdir"
    /\ UNCHANGED <<variant, caller, sub_dir_name, mem, envp, fs, umask,
                   original_tmpdir, cbWrites, entry, calls, seen, mkdirs,
                   writes, reads>>
    /\ Observe

\* A variant that ignores mkdir's result.
MkdirAbortsNever(rc, errno) == FALSE

\* if (mkdir(new_tmpdir, 0700) != 0 && errno != EEXIST) { free; return; }
MkdirAborts(rc, errno) == rc # 0 /\ errno # "EEXIST"

MkdirResult(rc, errno) ==
    /\ mkdirs' = Append(mkdirs, [path |-> new_tmpdir, rc |-> rc,
                                 errno |-> errno])
    /\ pc' = IF MkdirAborts(rc, errno) THEN "returned" ELSE "setenv"

Mkdir ==
    /\ pc = "mkdir"
    /\ \/ \* the directory is created, with mode 0700 & ~umask
          /\ new_tmpdir # <<>>
          /\ ~Exists(new_tmpdir)
          /\ fs' = [q \in DOMAIN fs \cup {Resolve(new_tmpdir)} |->
                      IF q \in DOMAIN fs THEN fs[q]
                      ELSE Dir(BitAnd(S_IRWXU, 511 - umask))]
          /\ MkdirResult(0, "none")
       \/ \* something is already there
          /\ Exists(new_tmpdir)
          /\ fs' = fs
          /\ MkdirResult(-1, "EEXIST")
       \/ \* any other failure
          /\ fs' = fs
          /\ \E e \in MkdirErrors : MkdirResult(-1, e)
    /\ UNCHANGED <<variant, caller, sub_dir_name, mem, envp, umask,
                   original_tmpdir, has_trailing_slash, new_tmpdir_len,
                   new_tmpdir, cbWrites, entry, calls, seen, writes, reads>>
    /\ Observe

\* Variants: one does not look at the result of the redirecting setenv, one
\* goes on to the restore without calling func.
AfterRedirectUnchecked(rc) == IF variant = "indirect" THEN "diag" ELSE "call"
AfterRedirectSkipsCall(rc) == IF rc # 0 THEN "returned" ELSE "restore"

\* Where the thread goes after the redirecting setenv returned rc.
AfterRedirect(rc) ==
    IF rc # 0 THEN "returned"
    ELSE IF variant = "indirect" THEN "diag" ELSE "call"

\* if (setenv("TMPDIR", new_tmpdir, 1) != 0) { free; return; } free;
SetenvRedirect ==
    /\ pc = "setenv"
    /\ \/ /\ SetenvStores(new_tmpdir)
          /\ writes' = Append(writes, [who |-> "redirect",
                                       val |-> new_tmpdir, rc |-> 0])
          /\ pc' = AfterRedirect(0)
       \/ /\ UNCHANGED <<mem, envp>>
          /\ writes' = Append(writes, [who |-> "redirect",
                                       val |-> new_tmpdir, rc |-> -1])
          /\ pc' = AfterRedirect(-1)
    /\ UNCHANGED <<variant, caller, sub_dir_name, fs, umask, original_tmpdir,
                   has_trailing_slash, new_tmpdir_len, new_tmpdir, cbWrites,
                   entry, calls, seen, mkdirs, reads>>
    /\ Observe

\* A variant in which the diagnostic line's getenv result is kept as the
\* value to restore.
DiagnosticKeepsPointer ==
    /\ pc = "diag"
    /\ reads' = reads + 1
    /\ original_tmpdir' = envp
    /\ pc' = "call"
    /\ UNCHANGED <<variant, caller, sub_dir_name, mem, envp, fs, umask,
                   has_trailing_slash, new_tmpdir_len, new_tmpdir, cbWrites,
                   entry, calls, seen, mkdirs, writes>>
    /\ Observe

\* ultra_sampler_indirect.cpp only:
\* printf("Current Process pid: %d tmpdir: %s\n", pid, getenv("TMPDIR"));
Diagnostic ==
    /\ pc = "diag"
    /\ reads' = reads + 1
    /\ pc' = "call"
    /\ UNCHANGED <<variant, caller, sub_dir_name, mem, envp, fs, umask,
                   original_tmpdir, has_trailing_slash, new_tmpdir_len,
                   new_tmpdir, cbWrites, entry, calls, seen, mkdirs, writes>>
    /\ Observe

\* func(); -- control enters the callback
CallFunc ==
    /\ pc = "call"
    /\ calls' = calls + 1
    /\ seen' = Tmpdir
    /\ pc' = "callback"
    /\ UNCHANGED <<variant, caller, sub_dir_name, mem, envp, fs, umask,
                   original_tmpdir, has_trailing_slash, new_tmpdir_len,
                   new_tmpdir, cbWrites, entry, mkdirs, writes, reads>>
    /\ Observe

\* The callback is arbitrary code: it may itself write TMPDIR.
CallbackSetenv ==
    /\ pc = "callback"
    /\ cbWrites < MaxCallbackWrites
    /\ \E v \in CallbackValues : SetenvStores(v)
    /\ cbWrites' = cbWrites + 1
    /\ UNCHANGED <<variant, pc, caller, sub_dir_name, fs, umask,
                   original_tmpdir, has_trailing_slash, new_tmpdir_len,
                   new_tmpdir, entry, calls, seen, mkdirs, writes, reads>>
    /\ Observe

\* A variant that calls func again when it returns.
AfterCallbackCallsAgain(how) == IF how = "return" THEN "call" ELSE "unwound"

\* Where the thread goes when the callback ends: a return continues after
\* the call; an exception (or longjmp) leaves set_temporary_tmpdir, which
\* has no handler and no destructor on its frame.
AfterCallback(how) == IF how = "return" THEN "restore" ELSE "unwound"

CallbackEnds(how) ==
    /\ pc = "callback"
    /\ pc' = AfterCallback(how)
    /\ UNCHANGED <<variant, caller, sub_dir_name, mem, envp, fs, umask,
                   original_tmpdir, has_trailing_slash, new_tmpdir_len,
                   new_tmpdir, cbWrites, entry, calls, seen, mkdirs, writes,
                   reads>>
    /\ Observe

CallbackReturn == CallbackEnds("return")
CallbackThrow == CallbackEnds("throw")

\* setenv("TMPDIR", original_tmpdir, 1); -- the result is not looked at
SetenvRestore ==
    /\ pc = "restore"
    /\ \E v \in Deref(original_tmpdir) :
         \/ /\ SetenvStores(v)
            /\ writes' = Append(writes, [who |-> "restore", val |-> v,
                                         rc |-> 0])
         \/ /\ UNCHANGED <<mem, envp>>
            /\ writes' = Append(writes, [who |-> "restore", val |-> v,
                                         rc |-> -1])
    /\ pc' = "returned"
    /\ UNCHANGED <<variant, caller, sub_dir_name, fs, umask, original_tmpdir,
                   has_trailing_slash, new_tmpdir_len, new_tmpdir, cbWrites,
                   entry, calls, seen, mkdirs, reads>>
    /\ Observe

Next ==
    \/ ultra_sampler_boot
    \/ DirectCall
    \/ GetenvEntry
    \/ BuildPath
    \/ Mkdir
    \/ SetenvRedirect
    \/ Diagnostic
    \/ CallFunc
    \/ CallbackSetenv
    \/ CallbackReturn
    \/ CallbackThrow
    \/ SetenvRestore

Spec == Init /\ [][Next]_vars

(***************************************************************************)
(* Two calls in sequence.  After set_temporary_tmpdir has returned, the    *)
(* same thread calls it again with the same subdirectory name; the         *)
(* environment and the filesystem are as the first call left them.         *)
(***************************************************************************)
SecondCall ==
    /\ pc = "returned"
    /\ ~first.done
    /\ first' = [done |-> TRUE, entry |-> entry, path |-> new_tmpdir,
                 mkdirs |-> mkdirs, writes |-> writes, calls |-> calls,
                 seen |-> seen, fs |-> fs, after |-> Tmpdir]
    /\ pc' = "getenv"
    /\ caller' = "direct"
    /\ original_tmpdir' = 0
    /\ has_trailing_slash' = FALSE
    /\ new_tmpdir_len' = 0
    /\ new_tmpdir' = <<>>
    /\ cbWrites' = 0
    /\ entry' = Unset
    /\ calls' = 0
    /\ seen' = Unset
    /\ mkdirs' = <<>>
    /\ writes' = <<>>
    /\ reads' = 0
    /\ UNCHANGED <<variant, sub_dir_name, mem, envp, fs, umask, opc, ocap,
                   cmpMode, log, pos, start>>

InitTwice ==
    /\ InitCall
    /\ \/ InitEnv(Value(TMP))
       \/ InitEnv(Value(TMP_SLASH))
       \/ \E v \in Str(MaxTwiceLen) : InitEnv(Value(v))
    /\ umask \in Umasks
    /\ InitAux("single")

NextTwice ==
    \/ Next
    \/ SecondCall

SpecTwice == InitTwice /\ [][NextTwice]_vars

(***************************************************************************)
(* Vocabulary of the properties.                                           *)
(***************************************************************************)
EndsWithSlash(o) == Len(o) > 0 /\ o[Len(o)] = "/"

\* The Computed Redirect Path of the specification: original value,
\* separator if not already present, subdirectory name, trailing separator.
RedirectPath(o, sub) ==
    IF EndsWithSlash(o) THEN o \o sub \o <<"/">>
    ELSE o \o <<"/">> \o sub \o <<"/">>

\* The paths this call has handed to mkdir and written into TMPDIR.
PathsUsed ==
    {mkdirs[i].path : i \in 1..Len(mkdirs)}
    \cup {writes[i].val : i \in {j \in 1..Len(writes) :
                                    writes[j].who = "redirect"}}

Exited == pc \in {"returned", "unwound"}
MkdirDone == Len(mkdirs) = 1
MkdirOk == MkdirDone /\ (mkdirs[1].rc = 0 \/ mkdirs[1].errno = "EEXIST")
RedirectDone == Len(writes) >= 1 /\ writes[1].who = "redirect"
RedirectOk == RedirectDone /\ writes[1].rc = 0

(***************************************************************************)
(* C1.  For every set TMPDIR value that does not end with "/" and every    *)
(* non-empty subdirectory name, the path passed to mkdir and written into  *)
(* TMPDIR is exactly original + "/" + sub_dir_name + "/", complete.        *)
(***************************************************************************)
C1_PathWithoutTrailingSlash ==
    (entry.set /\ ~EndsWithSlash(entry.val) /\ sub_dir_name # <<>>)
        => \A p \in PathsUsed :
              p = entry.val \o <<"/">> \o sub_dir_name \o <<"/">>

(***************************************************************************)
(* C2.  For every set TMPDIR value that ends with "/" and every non-empty  *)
(* subdirectory name, the path passed to mkdir and written into TMPDIR is  *)
(* exactly original + sub_dir_name + "/": no separator is inserted.        *)
(***************************************************************************)
C2_PathWithTrailingSlash ==
    (entry.set /\ EndsWithSlash(entry.val) /\ sub_dir_name # <<>>)
        => \A p \in PathsUsed : p = entry.val \o sub_dir_name \o <<"/">>

C2_Witness ==
    /\ entry = Value(TMP_SLASH)
    /\ sub_dir_name = ULTRA
    /\ MkdirDone /\ RedirectOk
    /\ PathsUsed = {<<"/", "t", "m", "p", "/", ".", "u", "l", "t", "r", "a", "/">>}

(***************************************************************************)
(* C3.  After a call in which TMPDIR was set at entry, the directory was   *)
(* created or already existed, the redirecting write succeeded and the     *)
(* callback returned normally, TMPDIR on return equals its entry value.    *)
(***************************************************************************)
C3_RestoredOnReturn ==
    (pc = "returned" /\ entry.set /\ MkdirOk /\ RedirectOk /\ calls = 1)
        => Tmpdir = entry

(***************************************************************************)
(* C4.  TMPDIR is restored on every way the callback can end, abnormal     *)
(* ends included: once the callback has ended and control has left         *)
(* set_temporary_tmpdir, TMPDIR is not the redirect path.                  *)
(***************************************************************************)
C4_RestoredOnEveryEnd ==
    (Exited /\ calls >= 1 /\ cbWrites = 0)
        => Tmpdir # Value(writes[1].val)

(***************************************************************************)
(* C5.  If TMPDIR is unset at entry, the function returns with TMPDIR      *)
(* still unset, the callback is never invoked and mkdir is never           *)
(* attempted.                                                              *)
(***************************************************************************)
C5_UnsetIsNoOp ==
    (reads >= 1 /\ ~entry.set)
        => /\ pc = "returned"
           /\ Tmpdir = Unset
           /\ calls = 0
           /\ mkdirs = <<>>
           /\ writes = <<>>
           /\ DOMAIN fs = {ROOT}

C5_Witness == pc = "returned" /\ reads = 1 /\ ~entry.set /\ caller = "boot"

(***************************************************************************)
(* C6.  If mkdir fails with an error other than EEXIST, the function       *)
(* returns with TMPDIR unchanged from its entry value, without attempting  *)
(* a write to it and without invoking the callback.                        *)
(***************************************************************************)
C6_MkdirFailureAborts ==
    (MkdirDone /\ mkdirs[1].rc # 0 /\ mkdirs[1].errno # "EEXIST")
        => /\ pc = "returned"
           /\ Tmpdir = entry
           /\ writes = <<>>
           /\ calls = 0

C6_Witness ==
    /\ pc = "returned"
    /\ MkdirDone /\ mkdirs[1].rc = -1 /\ mkdirs[1].errno = "EACCES"
    /\ entry = Value(TMP_SLASH)

(***************************************************************************)
(* C7.  If the write that sets TMPDIR to the redirect path fails, the      *)
(* function returns without invoking the callback and without any further  *)
(* write to TMPDIR, even though the directory may have been created.       *)
(***************************************************************************)
C7_RedirectFailureAborts ==
    (RedirectDone /\ writes[1].rc # 0)
        => /\ pc = "returned"
           /\ calls = 0
           /\ Len(writes) = 1
           /\ Tmpdir = entry

C7_Witness ==
    /\ pc = "returned"
    /\ RedirectDone /\ writes[1].rc = -1
    /\ mkdirs[1].rc = 0
    /\ Exists(new_tmpdir) /\ fs[Resolve(new_tmpdir)].kind = "dir"

(***************************************************************************)
(* C8.  In every call that reaches the callback, when the callback starts  *)
(* and, as long as the callback does not write TMPDIR itself, while it     *)
(* runs, TMPDIR reads as the Computed Redirect Path.                       *)
(***************************************************************************)
C8_CallbackSeesRedirectPath ==
    /\ calls >= 1 => seen = Value(RedirectPath(entry.val, sub_dir_name))
    /\ (pc = "callback" /\ cbWrites = 0)
          => Tmpdir = Value(RedirectPath(entry.val, sub_dir_name))

(***************************************************************************)
(* C9.  Whenever the callback is running, TMPDIR names a filesystem entry  *)
(* that exists, is a directory and has mode 0700, whatever was at that     *)
(* path before the call.                                                   *)
(***************************************************************************)
C9_CallbackDirOwnerOnly ==
    (pc = "callback" /\ cbWrites = 0)
        => /\ Tmpdir.set
           /\ Exists(Tmpdir.val)
           /\ fs[Resolve(Tmpdir.val)] = Dir(S_IRWXU)

(***************************************************************************)
(* C10.  The callback is invoked exactly once, between the redirecting     *)
(* write and the restore, in a call where TMPDIR is set, mkdir succeeds or *)
(* reports EEXIST and the redirecting write succeeds; on every other path  *)
(* it is invoked zero times; no call invokes it more than once.            *)
(***************************************************************************)
C10_CallbackExactlyOnce ==
    /\ calls <= 1
    /\ calls = 1 => (entry.set /\ MkdirOk /\ RedirectOk)
    /\ (entry.set /\ MkdirOk /\ RedirectOk /\ pc \notin {"diag", "call"})
          => calls = 1
    /\ calls = 1 =>
          /\ pc \in {"callback", "restore", "returned", "unwound"}
          /\ pc \in {"callback", "restore", "unwound"} => Len(writes) = 1
    /\ Exited => (calls = 1 <=> (entry.set /\ MkdirOk /\ RedirectOk))

C10_Witness ==
    /\ pc = "returned" /\ calls = 1 /\ Len(writes) = 2
    /\ mkdirs[1].errno = "EEXIST"


(***************************************************************************)
(* C11.  When ultra_sampler_boot fires, the sampler-start callback is      *)
(* invoked unless mkdir or the redirecting write fails hard; in            *)
(* particular it is invoked when TMPDIR is unset.                          *)
(***************************************************************************)
HardFailure ==
    \/ MkdirDone /\ MkdirAborts(mkdirs[1].rc, mkdirs[1].errno)
    \/ RedirectDone /\ writes[1].rc # 0

C11_BootStartsSamplerUnlessHardFailure ==
    (caller = "boot" /\ Exited /\ ~HardFailure) => calls = 1

\* As amended: the sampler is started exactly when TMPDIR is set, the path
\* buffer was allocated, mkdir succeeded or reported EEXIST and the
\* redirecting write succeeded; with TMPDIR unset it is never started.
C11_BootStartsSamplerOnlyWhenRedirected ==
    (caller = "boot" /\ Exited)
        => /\ calls = 1 <=> (entry.set /\ mkdirs # <<>> /\ ~HardFailure
                               /\ RedirectDone)
           /\ ~entry.set => (calls = 0 /\ pc = "returned")

C11_Witness ==
    caller = "boot" /\ pc = "returned" /\ ~entry.set /\ reads = 1 /\ calls = 0

(***************************************************************************)
(* C13.  The run triggered by module load only moves forward through       *)
(* Not Yet Triggered, Redirecting, Running Callback, Restoring, Done: the  *)
(* callback starts only after the directory has been ensured and TMPDIR    *)
(* set to the path computed, the restore write happens only after the      *)
(* callback has returned, and no state is entered again.                   *)
(***************************************************************************)
Phase(p) ==
    CASE p = "idle" -> 0
      [] p \in {"getenv", "build", "mkdir", "setenv"} -> 1
      [] p \in {"diag", "call", "callback"} -> 2
      [] p = "restore" -> 3
      [] p \in {"returned", "unwound"} -> 4

Rank(p) ==
    CASE p = "idle" -> 0 [] p = "getenv" -> 1 [] p = "build" -> 2
      [] p = "mkdir" -> 3 [] p = "setenv" -> 4 [] p = "diag" -> 5
      [] p = "call" -> 6 [] p = "callback" -> 7 [] p = "restore" -> 8
      [] p \in {"returned", "unwound"} -> 9

C13_OneShotForward ==
    [][caller' = "boot" =>
         /\ Phase(pc') >= Phase(pc)
         /\ pc' # pc => Rank(pc') > Rank(pc)
         /\ (pc # "callback" /\ pc' = "callback")
               => /\ MkdirOk /\ Exists(new_tmpdir)
                  /\ RedirectOk /\ Len(writes) = 1
                  /\ Tmpdir = Value(new_tmpdir)
                  /\ calls = 0
         /\ Len(writes') = 2
               => /\ writes'[2].who = "restore"
                  /\ pc = "restore" /\ calls = 1 /\ Len(writes) = 1
         /\ Phase(pc') = 3 => Phase(pc) \in {2, 3}]_vars

C13_Witness ==
    /\ caller = "boot" /\ pc = "returned" /\ calls = 1
    /\ Len(writes) = 2 /\ writes[2].who = "restore"

(***************************************************************************)
(* C14.  The value written back by the restore step is the value TMPDIR    *)
(* held at entry, whatever happens to the environment in between: the      *)
(* captured value is a private copy, not a reference into the              *)
(* environment's storage.                                                  *)
(***************************************************************************)
C14_RestoreWritesEntryValue ==
    \A i \in 1..Len(writes) :
        writes[i].who = "restore" => writes[i].val = entry.val

(***************************************************************************)
(* C15.  No return of set_temporary_tmpdir leaves TMPDIR equal to the      *)
(* redirect path: once the redirecting write succeeded and the callback    *)
(* returned, TMPDIR holds the entry value on return even if the restoring  *)
(* write reports failure.                                                  *)
(***************************************************************************)
C15_NoLeakWhenRestoreFails ==
    (pc = "returned" /\ RedirectOk /\ cbWrites = 0 /\ Len(writes) = 2
        /\ writes[2].val = entry.val)
        => (Tmpdir # Value(new_tmpdir) /\ Tmpdir = entry)

(***************************************************************************)
(* C17.  Per call, TMPDIR is read once, at entry, and written at most      *)
(* twice, redirect then restore: no write when TMPDIR is unset or mkdir    *)
(* fails, never a restore without a successful redirect before it; in      *)
(* both source files.                                                      *)
(***************************************************************************)
WriteDiscipline ==
    /\ Len(writes) <= 2
    /\ Len(writes) >= 1 => writes[1].who = "redirect"
    /\ Len(writes) = 2 => (writes[2].who = "restore" /\ writes[1].rc = 0)
    /\ (reads >= 1 /\ ~entry.set) => writes = <<>>
    /\ (MkdirDone /\ MkdirAborts(mkdirs[1].rc, mkdirs[1].errno))
          => writes = <<>>
    /\ writes # <<>> => (entry.set /\ MkdirOk)

C17_ReadOnceWriteTwice ==
    /\ reads <= 1
    /\ pc \notin {"idle", "getenv"} => reads = 1
    /\ WriteDiscipline

\* As amended: ultra_sampler_hook.cpp reads TMPDIR once, at entry;
\* ultra_sampler_indirect.cpp reads it a second time, for its diagnostic
\* line, after a successful redirecting write and before the callback.
C17_ReadsPerVariant ==
    /\ pc \in {"idle", "getenv"} => reads = 0
    /\ pc \notin {"idle", "getenv"} =>
          reads = IF variant = "indirect" /\ RedirectOk /\ pc # "diag"
                  THEN 2 ELSE 1
    /\ WriteDiscipline

C17_Witness ==
    /\ variant = "indirect" /\ pc = "returned" /\ reads = 2
    /\ Len(writes) = 2 /\ calls = 1

(***************************************************************************)
(* C19.  For every set value of TMPDIR, the empty string included, the     *)
(* index read by the trailing-separator test lies within the value:        *)
(* 0 .. length-1.                                                          *)
(***************************************************************************)
C19_TrailingIndexInBounds ==
    (entry.set /\ pc \notin {"idle", "getenv", "build"})
        => TrailingIndex(Len(entry.val)) \in 0..(Len(entry.val) - 1)

(***************************************************************************)
(* The two source files side by side.  A call of set_temporary_tmpdir of   *)
(* one file is run to its end and recorded; then the process is put back   *)
(* in the state it started in and the set_temporary_tmpdir of the other    *)
(* file is run against the record.                                         *)
(***************************************************************************)
OtherFile(v) == IF v = "hook" THEN "indirect" ELSE "hook"

StartReplay ==
    /\ cmpMode = "record"
    /\ pc \in {"returned", "unwound"}
    /\ cmpMode' = "replay"
    /\ pos' = 0
    /\ variant' = OtherFile(variant)
    /\ mem' = start[1]
    /\ envp' = start[2]
    /\ fs' = start[3]
    /\ pc' = "idle"
    /\ caller' = "none"
    /\ sub_dir_name' = <<>>
    /\ original_tmpdir' = 0
    /\ has_trailing_slash' = FALSE
    /\ new_tmpdir_len' = 0
    /\ new_tmpdir' = <<>>
    /\ cbWrites' = 0
    /\ entry' = Unset
    /\ calls' = 0
    /\ seen' = Unset
    /\ mkdirs' = <<>>
    /\ writes' = <<>>
    /\ reads' = 0
    /\ UNCHANGED <<umask, first, opc, ocap, log, start>>

InitPair ==
    /\ InitCall
    /\ \/ InitEnv(Value(TMP))
       \/ InitEnv(Value(TMP_SLASH))
       \/ \E v \in Str(MaxPairLen) : InitEnv(Value(v))
       \/ InitEnv(Unset)
    /\ umask = 18
    /\ InitAux("record")

NextPair ==
    \/ Next
    \/ StartReplay

SpecPair == InitPair /\ [][NextPair]_vars

(***************************************************************************)
(* A second thread of the same process.  It either writes TMPDIR once      *)
(* (unrelated code) or runs set_temporary_tmpdir(".ultra", ...) of the     *)
(* other module; its callback returns without touching TMPDIR.  The        *)
(* statements of the two threads interleave freely: set_temporary_tmpdir   *)
(* takes no lock and the environment has none.                             *)
(***************************************************************************)
\* Between the redirecting setenv and the restoring setenv of this call.
InWindow == pc \in {"diag", "call", "callback", "restore"}

\* A variant in which the window is a critical section.
OtherThreadExcluded == ~InWindow

\* No statement between line 43 and line 54 acquires anything.
OtherThreadMayRun == TRUE

OtherKeeps == UNCHANGED <<variant, pc, caller, sub_dir_name, umask,
                          original_tmpdir, has_trailing_slash, new_tmpdir_len,
                          new_tmpdir, cbWrites, entry, calls, seen, mkdirs,
                          writes, reads, first, cmpMode, log, pos, start>>

\* setenv("TMPDIR", v, 1) by unrelated code.
OtherSetenv ==
    /\ OtherThreadMayRun
    /\ opc = "idle"
    /\ \E v \in CallbackValues : SetenvStores(v)
    /\ opc' = "done"
    /\ UNCHANGED <<fs, ocap>>
    /\ OtherKeeps

\* original_tmpdir = getenv("TMPDIR"); if (!original_tmpdir) return;
OtherGetenv ==
    /\ OtherThreadMayRun
    /\ opc = "idle"
    /\ ocap' = [ocap EXCEPT !.ptr = envp, !.entry = Tmpdir]
    /\ opc' = IF envp = 0 THEN "done" ELSE "redirect"
    /\ UNCHANGED <<mem, envp, fs>>
    /\ OtherKeeps

\* The path computation, mkdir and the redirecting setenv of that call.
OtherRedirect ==
    /\ OtherThreadMayRun
    /\ opc = "redirect"
    /\ \E original \in Deref(ocap.ptr) :
       \E hts \in TrailingSlashOutcomes(original) :
         LET path == Snprintf(NewTmpdirLen(original, ULTRA, hts),
                              Format(original, ULTRA, hts))
         IN \/ \* malloc, mkdir or setenv failed: return
               /\ opc' = "done"
               /\ UNCHANGED <<mem, envp, fs, ocap>>
            \/ /\ fs' = IF Exists(path) THEN fs
                        ELSE [q \in DOMAIN fs \cup {Resolve(path)} |->
                                IF q \in DOMAIN fs THEN fs[q]
                                ELSE Dir(BitAnd(S_IRWXU, 511 - umask))]
               /\ SetenvStores(path)
               /\ ocap' = [ocap EXCEPT !.path = path]
               /\ opc' = "restore"
    /\ OtherKeeps

\* func(); setenv("TMPDIR", original_tmpdir, 1);
OtherRestore ==
    /\ OtherThreadMayRun
    /\ opc = "restore"
    /\ \E v \in Deref(ocap.ptr) :
         /\ \/ SetenvStores(v)
            \/ UNCHANGED <<mem, envp>>
         /\ ocap' = [ocap EXCEPT !.restored = Value(v)]
    /\ opc' = "done"
    /\ UNCHANGED fs
    /\ OtherKeeps

OtherWrites ==
    \/ OtherSetenv
    \/ OtherRedirect
    \/ OtherRestore

InitConc ==
    /\ InitCall
    /\ \/ InitEnv(Value(TMP))
       \/ InitEnv(Value(TMP_SLASH))
    /\ DOMAIN fs = {ROOT}
    /\ umask = 18
    /\ InitAux("conc")

NextConc ==
    \/ Next
    \/ OtherSetenv
    \/ OtherGetenv
    \/ OtherRedirect
    \/ OtherRestore

SpecConc == InitConc /\ [][NextConc]_vars

\* TMPDIR before either thread began.
InitialTmpdir == [set |-> start[2] # 0,
                  val |-> IF start[2] # 0 THEN start[1][start[2]].val
                          ELSE <<>>]

(***************************************************************************)
(* C12.  Two calls in sequence with the same subdirectory name and the     *)
(* same entry value of TMPDIR behave identically apart from the result of  *)
(* mkdir: the second call sees EEXIST, computes the same path, invokes the *)
(* callback once under that path, restores TMPDIR and leaves the           *)
(* filesystem as the first call left it.                                   *)
(***************************************************************************)
BothCallsRan ==
    /\ first.done /\ pc = "returned"
    /\ first.entry.set /\ entry = first.entry
    /\ first.calls = 1 /\ Len(first.writes) = 2
    /\ MkdirOk /\ RedirectOk /\ calls = 1

C12_SecondCallIdentical ==
    BothCallsRan
        => /\ mkdirs[1].errno = "EEXIST"
           /\ new_tmpdir = first.path
           /\ seen = Value(first.path)
           /\ Tmpdir = entry
           /\ fs = first.fs

(***************************************************************************)
(* C16.  set_temporary_tmpdir provides no exclusion on TMPDIR: at every    *)
(* point between this call's redirecting write and its restoring write, a  *)
(* second thread that still has a write of TMPDIR to make (its own, or the *)
(* redirect or restore of its own set_temporary_tmpdir) can make it.  The  *)
(* witness is the outcome the claim describes: the callback observed a     *)
(* value other than this call's redirect path and, after both calls have   *)
(* returned, TMPDIR differs from the value it had before either began.     *)
(***************************************************************************)
C16_NoExclusion ==
    (InWindow /\ opc # "done") => ENABLED OtherWrites

C16_Witness ==
    /\ pc = "returned" /\ opc = "done"
    /\ calls = 1 /\ cbWrites = 0
    /\ seen.set /\ seen # Value(new_tmpdir)
    /\ Len(writes) = 2
    /\ writes[1].rc = 0 /\ writes[2].rc = 0
    /\ writes[2].val = entry.val /\ entry = InitialTmpdir
    /\ ocap.path # <<>> /\ ocap.restored = ocap.entry
    /\ \A c \in Cells : mem[c].st # "freed"
    /\ Tmpdir # InitialTmpdir

(***************************************************************************)
(* C18.  The two source files implement the same operation.  From every    *)
(* entry state, whatever one file's set_temporary_tmpdir did (the same     *)
(* mkdir and setenv calls with the same results, the same callback         *)
(* invocations, the same environment and filesystem after each step), the  *)
(* other file's set_temporary_tmpdir can do step for step, and it ends     *)
(* where the first ended; only the diagnostic line is extra.               *)
(***************************************************************************)
C18_SameOperation ==
    cmpMode = "replay"
        => IF pos < Len(log) THEN ENABLED Next
           ELSE pc \in {"returned", "unwound"} /\ Core = log[Len(log)]

C18_Witness ==
    /\ cmpMode = "replay" /\ pos = Len(log)
    /\ variant = "indirect" /\ reads = 2
    /\ pc = "returned" /\ calls = 1
    /\ Len(mkdirs) = 1 /\ Len(writes) = 2
    /\ Core = log[Len(log)]

==========================================================================
